---- MODULE Spec2Model ----
(***************************************************************************)
(* Model of css-support-inspector: src/scripts/analyzer.ts (the analysis   *)
(* core) and src/scripts/app.ts (the UI glue around it).                   *)
(*                                                                         *)
(* Text is modelled as a sequence of one-character strings wherever the    *)
(* code inspects characters (version tokens, value identifiers); names the *)
(* code only compares whole (property names, labels' fixed parts) are kept *)
(* as single chunks of such a sequence.                                    *)
(***************************************************************************)
EXTENDS Integers, Sequences, FiniteSets, TLC

VARIABLES
    kb,               \* the compatibility knowledge base the process loaded
    pc,               \* position of the analyzeCssSupport call in flight
    css,              \* the source text handed to analyzeCssSupport
    latestVersions,   \* the const latestVersions of the call
    featureMap,       \* collectFeatures' inventory, in insertion order
    fi,               \* index of the feature the outer forEach is at
    bi,               \* index of the browser the inner forEach is at
    minimum,          \* minimum[browser]
    unsupported,      \* unsupported[browser] (<<>> while the key is unset)
    limitingFeature,  \* limitingFeature[browser]
    limitingVersion,  \* limitingVersion[browser]
    result,           \* the AnalysisResult returned
    doc,              \* the editor's document
    dom,              \* classes and texts of the elements runAnalysis writes
    outcomes,         \* history: how the latest two runAnalysis calls ended
    support,          \* pickSupportStatement: its argument
    picked,           \* pickSupportStatement: its return value
    feature,          \* resolveFeatureCompat: its argument
    properties,       \* resolveFeatureCompat: bcd.css.properties
    compat,           \* resolveFeatureCompat: its return value
    releases,         \* getLatestVersionFromReleases: its argument
    latest            \* getLatestVersionFromReleases: its return value

vars == <<kb, pc, css, latestVersions, featureMap, fi, bi, minimum, unsupported, limitingFeature,
          limitingVersion, result, doc, dom, outcomes, support, picked, feature,
          properties, compat, releases, latest>>

analysisVars == <<kb, pc, css, latestVersions, featureMap, fi, bi, minimum, unsupported,
                  limitingFeature, limitingVersion, result>>
uiVars == <<doc, dom, outcomes>>
pickVars == <<support, picked>>
resolveVars == <<feature, properties, compat>>
releaseVars == <<releases, latest>>

----------------------------------------------------------------------------
(* Values of the language *)

Undefined == [k |-> "undefined"]
Null == [k |-> "null"]
Pending == [k |-> "pending"]

\* a version token: string | boolean | null (| undefined when the field is missing)
VTrue == [k |-> "true", s |-> <<>>]
VFalse == [k |-> "false", s |-> <<>>]
VNull == [k |-> "null", s |-> <<>>]
VAbsent == [k |-> "undefined", s |-> <<>>]
VStr(s) == [k |-> "string", s |-> s]

\* a number n/d with d a power of ten, in lowest such form; NaN; null; a thrown error
Num(n, d) == [k |-> "number", n |-> n, d |-> d]
NaN == [k |-> "NaN", n |-> 0, d |-> 1]
NullNum == [k |-> "null", n |-> 0, d |-> 1]
TypeError == [k |-> "TypeError", n |-> 0, d |-> 1]

Digits == {"0", "1", "2", "3", "4", "5", "6", "7", "8", "9"}
DigitVal(c) == CASE c = "0" -> 0 [] c = "1" -> 1 [] c = "2" -> 2 [] c = "3" -> 3
                 [] c = "4" -> 4 [] c = "5" -> 5 [] c = "6" -> 6 [] c = "7" -> 7
                 [] c = "8" -> 8 [] c = "9" -> 9

----------------------------------------------------------------------------
(* Version Utilities *)

\* the leading run of digits of s
DigitRun(s) ==
    LET stop == {i \in 1..Len(s) : s[i] \notin Digits}
        n == IF stop = {} THEN Len(s) ELSE (CHOOSE i \in stop : \A j \in stop : i <= j) - 1
    IN  SubSeq(s, 1, n)

RECURSIVE DigitsValue(_)
DigitsValue(s) ==
    IF s = <<>> THEN 0 ELSE DigitsValue(SubSeq(s, 1, Len(s) - 1)) * 10 + DigitVal(s[Len(s)])

RECURSIVE Pow10(_)
Pow10(k) == IF k = 0 THEN 1 ELSE 10 * Pow10(k - 1)

RECURSIVE Reduced(_, _)
Reduced(n, d) == IF d > 1 /\ n % 10 = 0 THEN Reduced(n \div 10, d \div 10) ELSE Num(n, d)

\* the digits after a period that opens rest
FractionOf(rest) == IF rest # <<>> /\ rest[1] = "." THEN DigitRun(Tail(rest)) ELSE <<>>

DecimalValue(int, frac) ==
    IF int = <<>> /\ frac = <<>> THEN NaN
    ELSE Reduced(DigitsValue(int \o frac), Pow10(Len(frac)))

AfterInteger(s, int) == DecimalValue(int, FractionOf(SubSeq(s, Len(int) + 1, Len(s))))

\* parseFloat on a string of digits and periods: the longest prefix that is a decimal
\* literal (digits, optionally a period and digits; or a period and digits)
parseFloat(s) == AfterInteger(s, DigitRun(s))

ParseCleanedEmptyAsZero(cleaned) == IF cleaned = <<>> THEN Num(0, 1) ELSE parseFloat(cleaned)

ParseCleaned(cleaned) == IF cleaned = <<>> THEN NullNum ELSE parseFloat(cleaned)

normalizeVersionFalseAsZero(version) ==
    IF version = VTrue \/ version = VFalse THEN Num(0, 1)
    ELSE IF version = VNull THEN NullNum
    ELSE IF version.k # "string" THEN TypeError
    ELSE ParseCleaned(SelectSeq(version.s, LAMBDA c : c \in Digits \/ c = "."))

normalizeVersion(version) ==
    IF version = VTrue THEN Num(0, 1)
    ELSE IF version = VFalse \/ version = VNull THEN NullNum
    ELSE IF version.k # "string" THEN TypeError   \* undefined.replace
    ELSE ParseCleaned(SelectSeq(version.s, LAMBDA c : c \in Digits \/ c = "."))

\* a >= b on numbers (false when either is NaN)
GreaterOrEqual(a, b) == a.k = "number" /\ b.k = "number" /\ a.n * b.d >= b.n * a.d

IsInteger(v) == v.k = "number" /\ v.d = 1

RECURSIVE String(_)
String(n) == IF n < 10 THEN <<CHOOSE c \in Digits : DigitVal(c) = n>>
             ELSE String(n \div 10) \o String(n % 10)

\* version.toFixed(1): the nearest multiple of 0.1, the larger one when two are as near
toFixed1(v) ==
    LET tenths == (v.n * 20 + v.d) \div (2 * v.d)
    IN  String(tenths \div 10) \o <<".">> \o String(tenths % 10)

\* x ?? -1
OrMinusOne(x) == IF x.k = "null" THEN [k |-> "number", n |-> -1, d |-> 1] ELSE x

\* aNum - bNum scaled by both denominators: its sign and its being zero are those
\* of the difference, which is all a sort comparator and || read; NaN is falsy
\* under ||, as 0 is
Difference(aNum, bNum) ==
    IF aNum.k = "NaN" \/ bNum.k = "NaN" THEN 0 ELSE aNum.n * bNum.d - bNum.n * aNum.d

compareVersions(a, b) ==
    Difference(OrMinusOne(normalizeVersion(VStr(a))), OrMinusOne(normalizeVersion(VStr(b))))

----------------------------------------------------------------------------
(* Compat Resolver: pickSupportStatement *)

\* a CompatStatement; flags, prefix and alternative_name are Undefined when missing
Statement(va, flags, prefix, alt) ==
    [k |-> "object", version_added |-> va, flags |-> flags, prefix |-> prefix,
     alternative_name |-> alt]
Plain(va) == Statement(va, Undefined, Undefined, Undefined)
Array(items) == [k |-> "array", items |-> items]

\* JavaScript truthiness of the values a statement's fields hold
Truthy(x) ==
    /\ x.k \notin {"undefined", "null", "false"}
    /\ x.k = "string" => x.s # <<>>

\* the least element of a non-empty set of indices
Least(set) == CHOOSE i \in set : \A j \in set : i <= j

FirstOf(items, hits) == IF hits = {} THEN Undefined ELSE items[Least(hits)]

\* Array.prototype.find: the first element satisfying P, or undefined
Find(items, P(_)) == FirstOf(items, {i \in 1..Len(items) : P(items[i])})

\* a ?? b
Coalesce(a, b) == IF a.k \in {"undefined", "null"} THEN b ELSE a

\* support.find((entry) => entry.version_added !== null) ?? support[0] ?? null
Fallback(items) ==
    Coalesce(Find(items, LAMBDA entry : entry.version_added # VNull),
             Coalesce(IF items = <<>> THEN Undefined ELSE items[1], Null))

Preferred(items) ==
    Find(items, LAMBDA entry :
        /\ ~Truthy(entry.flags)
        /\ ~Truthy(entry.prefix)
        /\ ~Truthy(entry.alternative_name)
        /\ Truthy(entry.version_added))

pickSupportStatementNoPreference(s) ==
    IF s.k = "undefined" THEN Null
    ELSE IF s.k # "array" THEN s
    ELSE Fallback(s.items)

pickSupportStatement(s) ==
    IF s.k = "undefined" THEN Null
    ELSE IF s.k # "array" THEN s
    ELSE Coalesce(Preferred(s.items), Fallback(s.items))

----------------------------------------------------------------------------
(* Latest-Release Lookup *)

\* a || b on numbers
OrElse(a, b) == IF a # 0 THEN a ELSE b

\* a.date.localeCompare(b.date); a date is the rank of its ISO text, 0 for ''
localeCompare(a, b) == a - b

\* the comparator of the sort of `stable`
byVersion(a, b) ==
    OrElse(compareVersions(a.version, b.version), localeCompare(a.date, b.date))

\* the comparator of the sort of `all`
byDate(a, b) ==
    OrElse(localeCompare(a.date, b.date), compareVersions(a.version, b.version))

Compare(order, a, b) == IF order = "byVersion" THEN byVersion(a, b) ELSE byDate(a, b)

InsertAt(done, x, at) == SubSeq(done, 1, at - 1) \o <<x>> \o SubSeq(done, at, Len(done))

FirstOrEnd(after, end) == IF after = {} THEN end ELSE Least(after)

\* x goes before the first element that must follow it
InsertSorted(done, x, order) ==
    InsertAt(done, x,
        FirstOrEnd({i \in 1..Len(done) : Compare(order, done[i], x) > 0}, Len(done) + 1))

\* Array.prototype.sort (a stable sort) under byVersion or byDate: insertion from
\* the left
RECURSIVE Sort(_, _)
Sort(items, order) ==
    IF items = <<>> THEN <<>>
    ELSE InsertSorted(Sort(SubSeq(items, 1, Len(items) - 1), order), items[Len(items)], order)

\* items[items.length - 1]?.version ?? null
LastVersion(items) == IF items = <<>> THEN VNull ELSE VStr(items[Len(items)].version)

LatestVersionFirst(stable, entries) ==
    IF Len(stable) > 0 THEN LastVersion(Sort(stable, "byVersion"))
    ELSE LastVersion(Sort(entries, "byVersion"))

Latest(stable, entries) ==
    IF Len(stable) > 0 THEN LastVersion(Sort(stable, "byVersion"))
    ELSE LastVersion(Sort(entries, "byDate"))

\* rel: Undefined, or Object.entries(releases) as a sequence of
\* [version, status, date] with date 0 when release_date is missing
getLatestVersionFromReleasesVersionFirst(rel) ==
    IF rel.k = "undefined" THEN VNull
    ELSE LatestVersionFirst(SelectSeq(rel.entries, LAMBDA e : e.status = "current"),
                            rel.entries)

getLatestVersionFromReleases(rel) ==
    IF rel.k = "undefined" THEN VNull
    ELSE Latest(SelectSeq(rel.entries, LAMBDA e : e.status = "current"), rel.entries)

----------------------------------------------------------------------------
(* Text helpers *)

Lower == <<"a", "b", "c", "d", "e", "f", "g", "h", "i", "j", "k", "l", "m",
           "n", "o", "p", "q", "r", "s", "t", "u", "v", "w", "x", "y", "z">>
Upper == <<"A", "B", "C", "D", "E", "F", "G", "H", "I", "J", "K", "L", "M",
           "N", "O", "P", "Q", "R", "S", "T", "U", "V", "W", "X", "Y", "Z">>
Range(f) == {f[i] : i \in DOMAIN f}
Whitespace == {" "}

toLowerCase(s) ==
    [i \in DOMAIN s |->
        IF s[i] \in Range(Upper) THEN Lower[CHOOSE j \in DOMAIN Upper : Upper[j] = s[i]]
        ELSE s[i]]

trim(s) ==
    LET ink == {i \in DOMAIN s : s[i] \notin Whitespace}
    IN  IF ink = {} THEN <<>>
        ELSE SubSeq(s, CHOOSE i \in ink : \A j \in ink : i <= j,
                       CHOOSE i \in ink : \A j \in ink : i >= j)

\* s.replace(/P+/g, '_'): every maximal run of characters satisfying P becomes one "_"
ReplaceRuns(s, P(_)) ==
    LET keep == {i \in DOMAIN s : ~(P(s[i]) /\ i > 1 /\ P(s[i - 1]))}
        F[i \in 0..Len(s)] ==
            IF i = 0 THEN <<>>
            ELSE IF i \notin keep THEN F[i - 1]
            ELSE Append(F[i - 1], IF P(s[i]) THEN "_" ELSE s[i])
    IN  F[Len(s)]

\* the characters /[^a-z0-9\-_%().]/gi leaves alone
KeyChars == Range(Lower) \cup Range(Upper) \cup Digits \cup {"-", "_", "%", "(", ")", "."}

ReplaceInvalid(s) == [i \in DOMAIN s |-> IF s[i] \in KeyChars THEN s[i] ELSE "_"]
DropLeading(s) == IF s # <<>> /\ s[1] = "_" THEN Tail(s) ELSE s
DropTrailing(s) == IF s # <<>> /\ s[Len(s)] = "_" THEN SubSeq(s, 1, Len(s) - 1) ELSE s

\* the four replace calls, in order
toMdnKey(value) ==
    DropTrailing(DropLeading(
        ReplaceRuns(ReplaceInvalid(ReplaceRuns(value, LAMBDA c : c \in Whitespace)),
                    LAMBDA c : c = "_")))

----------------------------------------------------------------------------
(* Feature Extractor *)

SUPPORTED_BROWSERS == <<"chrome", "firefox", "safari">>
Browsers == Range(SUPPORTED_BROWSERS)

\* a FeatureUsage; property and value are <<>> and valueKind "undefined" when missing
FeatureUsage(key, type, property, value, valueKind, label) ==
    [key |-> key, type |-> type, property |-> property, value |-> value,
     valueKind |-> valueKind, label |-> label]

addFeature(features, f) ==
    IF \E i \in DOMAIN features : features[i].key = f.key THEN features
    ELSE Append(features, f)

\* the inner walk of one declaration's value: its nodes in document order
RECURSIVE walkValue(_, _, _)
walkValue(features, prop, nodes) ==
    IF nodes = <<>> THEN features
    ELSE LET valueNode == Head(nodes)
             value == toLowerCase(valueNode.name)
             next ==
                 IF valueNode.type = "Identifier"
                 THEN addFeature(features,
                          FeatureUsage(<<"property-value:">> \o prop \o <<":">> \o value,
                                       "property-value", prop, value, "identifier",
                                       prop \o <<": ">> \o value))
                 ELSE IF valueNode.type = "Function"
                 THEN addFeature(features,
                          FeatureUsage(<<"property-value:">> \o prop \o <<":">> \o value
                                           \o <<"(", ")">>,
                                       "property-value", prop, value, "function",
                                       prop \o <<": ">> \o value \o <<"(", ")">>))
                 ELSE features
         IN  walkValue(next, prop, Tail(nodes))

\* the first walk: every Declaration node in document order
RECURSIVE walkDeclarations(_, _)
walkDeclarations(features, decls) ==
    IF decls = <<>> THEN features
    ELSE LET node == Head(decls)
             prop == toLowerCase(trim(node.property))
             next == IF prop = <<>> THEN features
                     ELSE walkValue(
                              addFeature(features,
                                  FeatureUsage(<<"property:">> \o prop, "property", prop,
                                               <<>>, "undefined", prop)),
                              prop, node.value)
         IN  walkDeclarations(next, Tail(decls))

\* the second walk: one addFeature per NestingSelector node
RECURSIVE walkNesting(_, _)
walkNesting(features, n) ==
    IF n = 0 THEN features
    ELSE walkNesting(addFeature(features,
                         FeatureUsage(<<"selector:nesting">>, "selector", <<>>, <<>>,
                                      "undefined", <<"CSS nesting">>)),
                     n - 1)

\* source: what csstree.parse makes of the text, a thrown error ("invalid") or a
\* tree given by its Declaration nodes and the number of its NestingSelector nodes
collectFeaturesPropagating(source) ==
    IF source.k = "invalid" THEN [k |-> "TypeError", features |-> <<>>]
    ELSE [k |-> "ok",
          features |-> walkNesting(walkDeclarations(<<>>, source.decls), source.nesting)]

collectFeatures(source) ==
    IF source.k = "invalid" THEN [k |-> "ok", features |-> <<>>]
    ELSE [k |-> "ok",
          features |-> walkNesting(walkDeclarations(<<>>, source.decls), source.nesting)]

----------------------------------------------------------------------------
(* Compat Resolver: resolveFeatureCompat *)

\* a CompatData object: its __compat block (Undefined when missing) and its other
\* keys, a function from key to value
CompatData(compatBlock, sub) == [k |-> "object", compat |-> compatBlock, sub |-> sub]
Support(chrome, firefox, safari) ==
    [support |-> [chrome |-> chrome, firefox |-> firefox, safari |-> safari], k |-> "object"]
NoKeys == [key \in {} |-> Undefined]

\* table[key], undefined when the key is not there
Lookup(table, key) == IF key \in DOMAIN table THEN table[key] ELSE Undefined

Candidates(normalized, kind) ==
    IF kind = "function" THEN <<normalized, normalized \o <<"(", ")">>>> ELSE <<normalized>>

CandidatesFunctionFirst(normalized, kind) ==
    IF kind = "function" THEN <<normalized \o <<"(", ")">>, normalized>> ELSE <<normalized>>

buildValueCandidatesFunctionFirst(value, kind) == CandidatesFunctionFirst(toMdnKey(value), kind)

\* the Set's elements in insertion order (normalized and normalized + '()' differ)
buildValueCandidates(value, kind) == Candidates(toMdnKey(value), kind)

FirstHit(sub, candidates, hits) == IF hits = {} THEN Null ELSE sub[candidates[Least(hits)]]

\* the for loop over the candidates
FirstObject(sub, candidates) ==
    FirstHit(sub, candidates,
             {i \in DOMAIN candidates : Lookup(sub, candidates[i]).k = "object"})

ResolveValue(property, f) ==
    IF property.k = "undefined" THEN Null
    ELSE FirstObject(property.sub, buildValueCandidates(f.value, f.valueKind))

\* props: bcd.css.properties; nesting: bcd.css.selectors.nesting
resolveFeatureCompat(f, props, nesting) ==
    IF f.type = "property" /\ f.property # <<>>
    THEN Coalesce(Lookup(props, f.property), Null)
    ELSE IF f.type = "property-value" /\ f.property # <<>> /\ f.value # <<>>
    THEN ResolveValue(Lookup(props, f.property), f)
    ELSE IF f.type = "selector" /\ f.key = <<"selector:nesting">>
    THEN Coalesce(nesting, Null)
    ELSE Null

----------------------------------------------------------------------------
(* Version Aggregator and Reason Builder *)

UndefinedNum == [k |-> "undefined", n |-> 0, d |-> 1]

\* Number.isInteger(version) ? String(version) : version.toFixed(1)
formatNumber(version) == IF IsInteger(version) THEN String(version.n) ELSE toFixed1(version)

formatVersionIgnoringUnsupported(version, unsupportedList) ==
    IF version = Num(0, 1) THEN VStr(<<"a", "l", "l">>)
    ELSE VStr(formatNumber(version))

formatVersion(version, unsupportedList) ==
    IF Len(unsupportedList) > 0 THEN VNull
    ELSE IF version = Num(0, 1) THEN VStr(<<"a", "l", "l">>)
    ELSE VStr(formatNumber(version))

\* the reason texts, by their template and the values filled in
ReasonPrompt == [k |-> "prompt", feature |-> <<>>, more |-> 0, version |-> <<>>]
ReasonNone == [k |-> "none", feature |-> <<>>, more |-> 0, version |-> <<>>]
ReasonUnsupported(first, more) ==
    [k |-> "unsupported", feature |-> first, more |-> more, version |-> <<>>]
ReasonLimiting(f, formatted) ==
    [k |-> "limiting", feature |-> f, more |-> 0, version |-> formatted]

buildReason(browser, unsupp, limFeature, limVersion) ==
    LET unsupportedList == unsupp[browser]
        f == limFeature[browser]
        version == limVersion[browser]
    IN  IF Len(unsupportedList) > 0
        THEN ReasonUnsupported(unsupportedList[1], Len(unsupportedList) - 1)
        ELSE IF f # <<>> /\ version.k # "undefined"
        THEN ReasonLimiting(f, formatNumber(version))
        ELSE ReasonNone

\* the locals of analyzeCssSupport the forEach callbacks write
Locals(min, unsupp, limFeature, limVersion) ==
    [minimum |-> min, unsupported |-> unsupp, limitingFeature |-> limFeature,
     limitingVersion |-> limVersion, threw |-> FALSE]
InitialLocals ==
    Locals([b \in Browsers |-> Num(0, 1)], [b \in Browsers |-> <<>>],
           [b \in Browsers |-> <<>>], [b \in Browsers |-> UndefinedNum])

\* whether the outer callback returns before the inner forEach
NoSupport(resolved) == resolved.k # "object" \/ resolved.compat.k # "object"

exceeds(version, min) == GreaterOrEqual(version, min) /\ version # min

reaches(version, min) == GreaterOrEqual(version, min)

WithVersion(st, f, browser, version) ==
    IF version.k = "TypeError" THEN [st EXCEPT !.threw = TRUE]
    ELSE IF version.k = "null"
    THEN [st EXCEPT !.unsupported[browser] = Append(@, f.label)]
    ELSE IF reaches(version, st.minimum[browser])
    THEN [st EXCEPT !.minimum[browser] = version,
                    !.limitingFeature[browser] = f.label,
                    !.limitingVersion[browser] = version]
    ELSE st

WithStatement(st, f, browser, statement) ==
    IF statement.k = "null" THEN st
    ELSE WithVersion(st, f, browser, normalizeVersion(statement.version_added))

\* the inner callback, for one browser of a feature that resolved to `resolved`
forEachBrowser(st, f, resolved, browser) ==
    WithStatement(st, f, browser, pickSupportStatement(resolved.compat.support[browser]))

getLatestVersions(K) ==
    [b \in Browsers |-> getLatestVersionFromReleases(K.browsers[b])]

BlankResult(latestVersionsNow) ==
    [k |-> "ok", features |-> <<>>,
     minimumVersions |-> [b \in Browsers |-> VNull],
     latestVersions |-> latestVersionsNow,
     unsupported |-> [b \in Browsers |-> <<>>],
     reasons |-> [b \in Browsers |-> ReasonPrompt]]

\* lines 106-122: the reasons and the returned object
Finish(features, st, latestVersionsNow) ==
    [k |-> "ok", features |-> features,
     minimumVersions |->
         [b \in Browsers |-> formatVersion(st.minimum[b], st.unsupported[b])],
     latestVersions |-> latestVersionsNow,
     unsupported |-> st.unsupported,
     reasons |-> [b \in Browsers |->
         buildReason(b, st.unsupported, st.limitingFeature, st.limitingVersion)]]

Thrown == [k |-> "TypeError"]

\* !css.trim()
Blank(source) == source.k \in {"empty", "whitespace"}

\* the two forEach loops from feature i, browser j on
RECURSIVE forEachFrom(_, _, _, _, _)
RECURSIVE forEachResolved(_, _, _, _, _, _)
forEachResolved(st, features, i, j, K, resolved) ==
    IF NoSupport(resolved) \/ j > Len(SUPPORTED_BROWSERS)
    THEN forEachFrom(st, features, i + 1, 1, K)
    ELSE forEachFrom(forEachBrowser(st, features[i], resolved, SUPPORTED_BROWSERS[j]),
                     features, i, j + 1, K)

forEachFrom(st, features, i, j, K) ==
    IF st.threw \/ i > Len(features) THEN st
    ELSE forEachResolved(st, features, i, j, K,
                         resolveFeatureCompat(features[i], K.properties, K.nesting))

Returned(features, st, latestVersionsNow) ==
    IF st.threw THEN Thrown ELSE Finish(features, st, latestVersionsNow)

Collected(collected, K, latestVersionsNow) ==
    IF collected.k # "ok" THEN Thrown
    ELSE Returned(collected.features,
                  forEachFrom(InitialLocals, collected.features, 1, 1, K),
                  latestVersionsNow)

Analysed(source, K, latestVersionsNow) ==
    IF Blank(source) THEN BlankResult(latestVersionsNow)
    ELSE Collected(collectFeatures(source), K, latestVersionsNow)

\* the whole call, as runAnalysis sees it: the returned object, or Thrown
analyzeCssSupport(source, K) == Analysed(source, K, getLatestVersions(K))

----------------------------------------------------------------------------
(* The knowledge base: a dataset in the shape of @mdn/browser-compat-data, with *)
(* the kinds of entry the code distinguishes.  "<=" stands for the one        *)
(* character U+2264 of ranged versions.                                        *)

S(chars) == Plain(VStr(chars))
all == <<"a", "l", "l">>
gap == <<"g", "a", "p">>
top == <<"t", "o", "p">>
zoom == <<"z", "o", "o", "m">>
clip == <<"c", "l", "i", "p">>
width == <<"w", "i", "d", "t", "h">>
foo == <<"f", "o", "o">>
auto == <<"a", "u", "t", "o">>
calc == <<"c", "a", "l", "c">>
preview == <<"p", "r", "e", "v", "i", "e", "w">>
webkit == VStr(<<"-", "w", "e", "b", "k", "i", "t", "-">>)

Release(version, status, date) == [version |-> version, status |-> status, date |-> date]
Entries(entries) == [k |-> "object", entries |-> entries]

BCD ==
    [properties |->
        (all :> CompatData(Support(Plain(VTrue), Plain(VTrue), Plain(VTrue)), NoKeys))
     @@ (gap :> CompatData(Support(S(<<"8", "0">>), S(<<"9", "0">>),
                                   S(<<"1", "5", ".", "4">>)), NoKeys))
     @@ (top :> CompatData(Support(S(<<"9", "0">>), S(<<"8", "0">>),
                                   S(<<"1", "5", ".", "4">>)), NoKeys))
     @@ (zoom :> CompatData(Support(S(<<"1">>), Plain(VFalse), Undefined), NoKeys))
     @@ (clip :> CompatData(Support(S(<<"<=", "7", "9">>), Plain(VNull), S(preview)), NoKeys))
     @@ (width :> CompatData(
            Support(Array(<<Statement(VStr(<<"2", "2">>), Undefined, webkit, Undefined),
                            S(<<"4", "6">>)>>),
                    Array(<<Plain(VFalse),
                            Statement(VStr(<<"5", "2">>), VTrue, Undefined, Undefined)>>),
                    Array(<<Plain(VNull),
                            Statement(VStr(<<"1", "0">>), Undefined, webkit, Undefined)>>)),
            (auto :> CompatData(Support(Plain(VTrue), S(<<"1">>), Array(<<>>)), NoKeys))
         @@ (calc \o <<"(", ")">> :>
                CompatData(Support(S(<<"2", "6">>), S(<<"1", "6">>), S(<<"7">>)), NoKeys)))),
     nesting |-> CompatData(Support(S(<<"1", "2", "0">>), S(<<"1", "1", "7">>),
                                    S(<<"1", "7", ".", "2">>)), NoKeys),
     browsers |->
        [chrome |-> Entries(<<Release(<<"1", "1", "9">>, "retired", 1),
                              Release(<<"1", "2", "0">>, "current", 2),
                              Release(<<"1", "2", "1">>, "beta", 3)>>),
         firefox |-> Entries(<<Release(<<"1", "1", "7">>, "esr", 1),
                               Release(<<"1", "1", "8">>, "retired", 2)>>),
         safari |-> Undefined]]

\* the same dataset with one statement that lacks its version_added field
CorruptBCD ==
    [BCD EXCEPT !.properties[zoom] =
        CompatData(Support(S(<<"1">>), Plain(VFalse), Plain(VAbsent)), NoKeys)]

----------------------------------------------------------------------------
(* Source texts, by what the parser makes of them *)

MaxDecls == 2
MaxNesting == 1
MaxUiDecls == 2

Node(type, name) == [type |-> type, name |-> name]
Declaration(property, value) == [property |-> property, value |-> value]

Declarations ==
    { Declaration(all, <<>>),
      Declaration(gap, <<>>),
      Declaration(<<"G", "a", "p", " ">>, <<>>),
      Declaration(top, <<>>),
      Declaration(zoom, <<>>),
      Declaration(clip, <<Node("Identifier", auto)>>),
      Declaration(width, <<Node("Function", <<"C", "a", "l", "c">>),
                           Node("Dimension", <<>>)>>),
      Declaration(width, <<Node("Identifier", <<"$", "a", "u", "t", "o">>)>>),
      Declaration(foo, <<Node("Identifier", auto)>>) }

SeqsUpTo(set, n) == UNION {[1..m -> set] : m \in 0..n}

Sheet(decls, nesting) == [k |-> "sheet", decls |-> decls, nesting |-> nesting]
EmptyText == [k |-> "empty", decls |-> <<>>, nesting |-> 0]
WhitespaceText == [k |-> "whitespace", decls |-> <<>>, nesting |-> 0]
InvalidText == [k |-> "invalid", decls |-> <<>>, nesting |-> 0]

Texts == {EmptyText, WhitespaceText, InvalidText}
Sources ==
    Texts \cup {Sheet(d, m) : d \in SeqsUpTo(Declarations, MaxDecls), m \in 0..MaxNesting}

\* the page shows a result by its shape alone: versions for all browsers, for
\* some, for none, or a failure
UiDeclarations ==
    { Declaration(all, <<>>),
      Declaration(gap, <<>>),
      Declaration(zoom, <<>>),
      Declaration(clip, <<Node("Identifier", auto)>>) }
UiSources == Texts \cup {Sheet(d, 0) : d \in SeqsUpTo(UiDeclarations, MaxUiDecls)}

\* SAMPLE_CSS: a comment alone, which parses to a tree without declarations
SAMPLE_CSS == Sheet(<<>>, 0)

----------------------------------------------------------------------------
(* UI glue: app.ts *)

ListLimit == 200

Element(text, unavailable) == [text |-> text, unavailable |-> unavailable]

renderVersionKeepingClass(element, version, unsupportedCount) ==
    IF version = VNull
    THEN Element(IF unsupportedCount # 0 THEN <<"not fully supported">> ELSE <<"n/a">>, TRUE)
    ELSE Element(IF version.s = <<"a", "l", "l">> THEN version.s ELSE <<">= ">> \o version.s,
                 element.unavailable)

renderVersion(element, version, unsupportedCount) ==
    IF version = VNull
    THEN Element(IF unsupportedCount # 0 THEN <<"not fully supported">> ELSE <<"n/a">>, TRUE)
    ELSE Element(IF version.s = <<"a", "l", "l">> THEN version.s ELSE <<">= ">> \o version.s,
                 FALSE)

\* the elements runAnalysis writes; texts by their template and the values filled
\* in; the feature list by its items, which the handler sorts by label
Dom(statusError, statusText, version, latestText, reason, featureList) ==
    [statusError |-> statusError, statusText |-> statusText, version |-> version,
     latest |-> latestText, reason |-> reason, featureList |-> featureList]

StatusCount(n) == [k |-> "analysed", n |-> n]
StatusPrompt == [k |-> "prompt", n |-> 0]
StatusFailed == [k |-> "failed", n |-> 0]
ReasonFailed == [k |-> "failed", feature |-> <<>>, more |-> 0, version |-> <<>>]

Min(a, b) == IF a <= b THEN a ELSE b

\* the rest of the try block, or the catch block
Render(d, r) ==
    IF r.k = "ok"
    THEN Dom(FALSE,
             IF Len(r.features) # 0 THEN StatusCount(Len(r.features)) ELSE StatusPrompt,
             [b \in Browsers |->
                 renderVersion(d.version[b], r.minimumVersions[b], Len(r.unsupported[b]))],
             [b \in Browsers |->
                 <<"latest: ">> \o (IF r.latestVersions[b] = VNull THEN <<"n/a">>
                                    ELSE r.latestVersions[b].s)],
             r.reasons,
             {r.features[i].label : i \in 1..Min(ListLimit, Len(r.features))})
    ELSE Dom(TRUE, StatusFailed,
             [b \in Browsers |-> Element(<<"EM DASH">>, TRUE)],
             [b \in Browsers |-> <<"latest: ", "n/a">>],
             [b \in Browsers |-> ReasonFailed],
             d.featureList)

\* runAnalysis(code) on the page d: the page it leaves
runAnalysis(d, code, K) == Render(d, analyzeCssSupport(code, K))

\* the page before the script runs: the markup's classes are not the script's
Markup(statusError, unavailable) ==
    Dom(statusError, StatusPrompt, [b \in Browsers |-> Element(<<>>, unavailable)],
        [b \in Browsers |-> <<>>], [b \in Browsers |-> ReasonPrompt], {})

Outcome(r) == IF r.k = "ok" THEN "ok" ELSE "threw"
LastTwo(seq) == IF Len(seq) > 2 THEN SubSeq(seq, Len(seq) - 1, Len(seq)) ELSE seq

\* mountSupportAnalyzer: the editor holds SAMPLE_CSS and runAnalysis(SAMPLE_CSS) ran
Mounted ==
    /\ doc = SAMPLE_CSS
    /\ \E e \in BOOLEAN, u \in BOOLEAN : dom = runAnalysis(Markup(e, u), SAMPLE_CSS, kb)
    /\ outcomes = <<"ok">>

\* runAnalysis(code), r being what analyzeCssSupport(code) comes to
RunAnalysis(r) ==
    /\ dom' = Render(dom, r)
    /\ outcomes' = LastTwo(Append(outcomes, Outcome(r)))

\* the editor's dispatch for a transaction that changes the document to `code`
Dispatch(code) ==
    /\ doc' = code
    /\ RunAnalysis(analyzeCssSupport(code, kb))
    /\ UNCHANGED <<analysisVars, pickVars, resolveVars, releaseVars>>

\* the clear button: replaces the whole document by '', a change only if there
\* was text
ClearEditor ==
    /\ doc.k # "empty"
    /\ doc' = EmptyText
    /\ RunAnalysis(analyzeCssSupport(EmptyText, kb))
    /\ UNCHANGED <<analysisVars, pickVars, resolveVars, releaseVars>>

----------------------------------------------------------------------------
(* analyzeCssSupport, step by step *)

Started(collected) ==
    /\ featureMap' = collected.features
    /\ result' = Pending
    /\ pc' = IF collected.k = "ok" THEN "forEach" ELSE "threw"

\* lines 46-73: the call up to the first forEach callback; every call starts from
\* its own fresh locals, so one call per behaviour covers them all
Call(source) ==
    /\ pc = "idle"
    /\ css' = source
    /\ latestVersions' = getLatestVersions(kb)
    /\ fi' = 1
    /\ bi' = 1
    /\ minimum' = InitialLocals.minimum
    /\ unsupported' = InitialLocals.unsupported
    /\ limitingFeature' = InitialLocals.limitingFeature
    /\ limitingVersion' = InitialLocals.limitingVersion
    /\ IF Blank(source)
       THEN /\ featureMap' = <<>>
            /\ result' = BlankResult(latestVersions')
            /\ pc' = "returned"
       ELSE Started(collectFeatures(source))
    /\ UNCHANGED <<kb, uiVars, pickVars, resolveVars, releaseVars>>

Stepped(st) ==
    IF st.threw
    THEN /\ pc' = "threw"
         /\ UNCHANGED <<fi, bi, minimum, unsupported, limitingFeature, limitingVersion>>
    ELSE /\ minimum' = st.minimum
         /\ unsupported' = st.unsupported
         /\ limitingFeature' = st.limitingFeature
         /\ limitingVersion' = st.limitingVersion
         /\ fi' = IF bi = Len(SUPPORTED_BROWSERS) THEN fi + 1 ELSE fi
         /\ bi' = IF bi = Len(SUPPORTED_BROWSERS) THEN 1 ELSE bi + 1
         /\ pc' = pc

Resolved(resolved) ==
    IF NoSupport(resolved)
    THEN /\ fi' = fi + 1
         /\ bi' = 1
         /\ UNCHANGED <<pc, minimum, unsupported, limitingFeature, limitingVersion>>
    ELSE Stepped(forEachBrowser(
                     Locals(minimum, unsupported, limitingFeature, limitingVersion),
                     featureMap[fi], resolved, SUPPORTED_BROWSERS[bi]))

\* lines 75-104: one callback of the inner forEach, or the outer callback's early
\* return for a feature without support data
forEachStep ==
    /\ pc = "forEach"
    /\ fi <= Len(featureMap)
    /\ Resolved(resolveFeatureCompat(featureMap[fi], kb.properties, kb.nesting))
    /\ UNCHANGED <<kb, css, latestVersions, featureMap, result, uiVars, pickVars,
                   resolveVars, releaseVars>>

\* lines 106-122
Return ==
    /\ pc = "forEach"
    /\ fi > Len(featureMap)
    /\ result' = Finish(featureMap,
                        Locals(minimum, unsupported, limitingFeature, limitingVersion),
                        latestVersions)
    /\ pc' = "returned"
    /\ UNCHANGED <<kb, css, latestVersions, featureMap, fi, bi, minimum, unsupported,
                   limitingFeature, limitingVersion, uiVars, pickVars, resolveVars,
                   releaseVars>>

----------------------------------------------------------------------------
(* The pure functions, applied to drawn arguments *)

MaxStatements == 2
MaxReleases == 3
MaxDate == 2

Statements ==
    {Statement(va, f, p, a) :
        va \in {VTrue, VFalse, VNull, VStr(<<"8", "0">>)},
        f \in {Undefined, VTrue},
        p \in {Undefined, webkit},
        a \in {Undefined, VStr(<<"g", "r", "i", "d", "-", "g", "a", "p">>)}}

SupportInputs ==
    {Undefined} \cup Statements \cup {Array(items) : items \in SeqsUpTo(Statements, MaxStatements)}

Pick ==
    /\ picked = Pending
    /\ picked' = pickSupportStatement(support)
    /\ UNCHANGED <<support, analysisVars, uiVars, resolveVars, releaseVars>>

\* what a key of a property entry may hold: nothing, a compat entry, or a value
\* that is no object (a key found on the prototype chain holds a function)
EntryPlain == CompatData(Support(S(<<"2", "6">>), S(<<"1", "6">>), S(<<"7">>)), NoKeys)
EntryFunction == CompatData(Support(S(<<"7", "9">>), S(<<"7", "5">>), S(<<"1", "1">>)), NoKeys)
NotAnObject == [k |-> "function"]

PropertyTables ==
    {NoKeys} \cup
    {width :> CompatData(Undefined,
                 [key \in keys |-> IF key = calc THEN plain ELSE paren]) :
        plain \in {EntryPlain, NotAnObject}, paren \in {EntryFunction, NotAnObject},
        keys \in SUBSET {calc, calc \o <<"(", ")">>}}

ResolveDeclarations ==
    { Declaration(width, <<Node("Function", calc), Node("Identifier", calc)>>),
      Declaration(width, <<Node("Function", <<"$", "C", "A", "L", "C", " ", "_">>),
                           Node("Function", auto), Node("Identifier", auto)>>),
      Declaration(gap, <<Node("Function", calc)>>) }

ResolveFeatures ==
    UNION {Range(collectFeatures(Sheet(<<d>>, 1)).features) : d \in ResolveDeclarations}

Resolve ==
    /\ compat = Pending
    /\ compat' = resolveFeatureCompat(feature, properties, BCD.nesting)
    /\ UNCHANGED <<feature, properties, analysisVars, uiVars, pickVars, releaseVars>>

ReleaseVersions == {<<"1">>, <<"1", ".", "5">>, <<"1", ".", "5", ".", "1">>, <<"2">>}

\* a table's keys are distinct; its entries come in any order
ReleaseKeys == {vs \in SeqsUpTo(ReleaseVersions, MaxReleases) :
                   \A i, j \in DOMAIN vs : vs[i] = vs[j] => i = j}

ReleasesOf(vs, statuses, dates) ==
    Entries([i \in DOMAIN vs |-> Release(vs[i], statuses[i], dates[i])])

LookUpLatest ==
    /\ latest = Pending
    /\ latest' = getLatestVersionFromReleases(releases)
    /\ UNCHANGED <<releases, analysisVars, uiVars, pickVars, resolveVars>>

----------------------------------------------------------------------------
(* Specifications *)

Loaded(K) ==
    /\ kb = K
    /\ pc = "idle"
    /\ css = EmptyText
    /\ latestVersions = getLatestVersions(K)
    /\ featureMap = <<>>
    /\ fi = 1
    /\ bi = 1
    /\ minimum = InitialLocals.minimum
    /\ unsupported = InitialLocals.unsupported
    /\ limitingFeature = InitialLocals.limitingFeature
    /\ limitingVersion = InitialLocals.limitingVersion
    /\ result = Pending
    /\ Mounted

NoPick == support = Undefined /\ picked = Pending
NoResolve == feature = Pending /\ properties = NoKeys /\ compat = Pending
NoLookUp == releases = Undefined /\ latest = Pending

\* the analysis core over the dataset
Init == Loaded(BCD) /\ NoPick /\ NoResolve /\ NoLookUp
Next == (\E source \in Sources : Call(source)) \/ forEachStep \/ Return
Spec == Init /\ [][Next]_vars

\* the analysis core over the dataset with a field missing
InitCorrupt == Loaded(CorruptBCD) /\ NoPick /\ NoResolve /\ NoLookUp
SpecCorrupt == InitCorrupt /\ [][Next]_vars

\* the page, over the dataset with a field missing
NextUI == (\E code \in UiSources : Dispatch(code)) \/ ClearEditor
SpecUI == InitCorrupt /\ [][NextUI]_vars

InitPick == Loaded(BCD) /\ NoResolve /\ NoLookUp /\ support \in SupportInputs /\ picked = Pending
SpecPick == InitPick /\ [][Pick]_vars

InitResolve ==
    /\ Loaded(BCD) /\ NoPick /\ NoLookUp
    /\ feature \in ResolveFeatures
    /\ properties \in PropertyTables
    /\ compat = Pending
SpecResolve == InitResolve /\ [][Resolve]_vars

InitReleases ==
    /\ Loaded(BCD) /\ NoPick /\ NoResolve
    /\ \/ releases = Undefined
       \/ \E vs \in ReleaseKeys :
            \E statuses \in [DOMAIN vs -> {"current", "retired"}],
               dates \in [DOMAIN vs -> 0..MaxDate] :
                releases = ReleasesOf(vs, statuses, dates)
    /\ latest = Pending
SpecReleases == InitReleases /\ [][LookUpLatest]_vars

----------------------------------------------------------------------------
(* Properties *)

\* what the aggregator sees of feature f for browser b: the statement picked, or
\* Null when the feature has no support data or the browser no statement
StatementOf(f, b) ==
    IF NoSupport(resolveFeatureCompat(f, kb.properties, kb.nesting)) THEN Null
    ELSE pickSupportStatement(
             resolveFeatureCompat(f, kb.properties, kb.nesting).compat.support[b])

\* the features of the inventory that have a statement for browser b
Considered(b) == {i \in DOMAIN featureMap : StatementOf(featureMap[i], b).k = "object"}
AddedOf(i, b) == StatementOf(featureMap[i], b).version_added
VersionOf(i, b) == normalizeVersion(AddedOf(i, b))
\* those among them whose added-version normalizes to a number
Versioned(b) == {i \in Considered(b) : VersionOf(i, b).k = "number"}

AllVersions == VStr(<<"a", "l", "l">>)
CallReturned == pc = "returned" /\ ~Blank(css)

\* C1: when a call on non-blank input has returned, a browser whose unsupported
\* list holds a label has minimumVersions null, whatever its running minimum is
C1_UnsupportedMeansNoMinimum ==
    CallReturned =>
        \A b \in Browsers :
            Len(result.unsupported[b]) > 0 => result.minimumVersions[b] = VNull

\* C1 witness: a returned call where a browser has an unsupported feature and a
\* running minimum above zero from another feature
C1_Witness ==
    /\ CallReturned
    /\ \E b \in Browsers :
        /\ Len(result.unsupported[b]) > 0
        /\ minimum[b] # Num(0, 1)
        /\ result.minimumVersions[b] = VNull

\* C2: when every feature with a statement for a browser has version_added true
\* there, the minimum version is 'all' and the reason is the text that no limiting
\* feature was found
C2_AllTrueGivesNoLimitingFeature ==
    CallReturned =>
        \A b \in Browsers :
            (\A i \in Considered(b) : AddedOf(i, b) = VTrue)
                => /\ result.minimumVersions[b] = AllVersions
                   /\ result.reasons[b] = ReasonNone

\* C3: when the call has returned, each browser's running minimum is the greatest
\* normalized added-version among the features with a supported statement (0 when
\* there are none), and the limiting feature is the last feature, in insertion
\* order, that has this version
C3_MinimumIsMaximumLastWins ==
    CallReturned =>
        \A b \in Browsers :
            IF Versioned(b) = {}
            THEN /\ minimum[b] = Num(0, 1)
                 /\ limitingFeature[b] = <<>>
            ELSE \E i \in Versioned(b) :
                    /\ \A j \in Versioned(b) :
                        /\ GreaterOrEqual(VersionOf(i, b), VersionOf(j, b))
                        /\ GreaterOrEqual(VersionOf(j, b), VersionOf(i, b)) => j <= i
                    /\ minimum[b] = VersionOf(i, b)
                    /\ limitingVersion[b] = VersionOf(i, b)
                    /\ limitingFeature[b] = featureMap[i].label

\* C3 witness: top (90 on chrome) before gap (80 on chrome, and the same 15.4 as
\* top on safari): chrome reports "90" limited by top, safari is limited by gap
C3_Witness ==
    /\ CallReturned
    /\ Len(featureMap) = 2
    /\ featureMap[1].label = top
    /\ featureMap[2].label = gap
    /\ result.minimumVersions["chrome"] = VStr(<<"9", "0">>)
    /\ limitingFeature["chrome"] = top
    /\ limitingFeature["safari"] = gap

\* C4: no call ends in a thrown error, every returned result is complete, and a
\* text the parser rejects gives an empty inventory, empty unsupported lists and
\* one reason per browser
C4_NoErrorCrossesTheBoundary ==
    /\ pc # "threw"
    /\ pc = "returned" =>
        /\ result.k = "ok"
        /\ \A b \in Browsers : result.reasons[b].k \in {"prompt", "none", "unsupported", "limiting"}
    /\ (css.k = "invalid" /\ pc \in {"forEach", "returned"}) => featureMap = <<>>
    /\ (css.k = "invalid" /\ pc = "returned") =>
        /\ result.features = <<>>
        /\ \A b \in Browsers : result.unsupported[b] = <<>>

\* C4 witness: a call on a text the parser rejects has returned
C4_Witness == css.k = "invalid" /\ pc = "returned" /\ result.k = "ok"

\* C6 (as amended): a callback for a statement whose added-version is false or
\* null appends the label to that browser's unsupported list alone, leaves the
\* running minimum and the limiting feature as they are, and goes on to the next
\* browser or feature
AtStatement(added) ==
    /\ pc = "forEach"
    /\ fi <= Len(featureMap)
    /\ StatementOf(featureMap[fi], SUPPORTED_BROWSERS[bi]).k = "object"
    /\ StatementOf(featureMap[fi], SUPPORTED_BROWSERS[bi]).version_added \in added

TreatedAsUnsupported ==
    /\ unsupported' = [unsupported EXCEPT ![SUPPORTED_BROWSERS[bi]] =
                          Append(@, featureMap[fi].label)]
    /\ UNCHANGED <<minimum, limitingFeature, limitingVersion>>
    /\ pc' = "forEach"
    /\ <<fi', bi'>> = IF bi = Len(SUPPORTED_BROWSERS) THEN <<fi + 1, 1>> ELSE <<fi, bi + 1>>

NoDigitNoPeriod(added) ==
    added.k = "string" /\ \A i \in DOMAIN added.s : added.s[i] \notin Digits \cup {"."}

C9_DigitlessStringIsUnsupported ==
    /\ \A chars \in SeqsUpTo({"p", "w", "-", "<="}, 2) : normalizeVersion(VStr(chars)) = NullNum
    /\ CallReturned =>
        \A b \in Browsers : \A i \in Considered(b) :
            NoDigitNoPeriod(AddedOf(i, b)) =>
                /\ VersionOf(i, b) = NullNum
                /\ \E n \in DOMAIN result.unsupported[b] :
                       result.unsupported[b][n] = featureMap[i].label
                /\ result.minimumVersions[b] = VNull

\* C9 witness: clip, "preview" on safari, was analysed next to a property safari
\* supports
C9_Witness ==
    /\ CallReturned
    /\ \E i \in Considered("safari") : AddedOf(i, "safari") = VStr(preview)
    /\ \E i \in Versioned("safari") : VersionOf(i, "safari") # Num(0, 1)
    /\ result.unsupported["safari"] = <<clip>>

\* C8: for a list, pickSupportStatement returns the first statement without
\* flags, prefix and alternative name whose added-version is neither null nor
\* false; failing that the first whose added-version is not null; failing that
\* the first of the list; a single statement is returned as is, and a missing
\* entry gives no statement
Unconditional(e) ==
    /\ e.flags = Undefined
    /\ e.prefix = Undefined
    /\ e.alternative_name = Undefined
    /\ e.version_added \notin {VNull, VFalse}

FirstAmong(items, set) == items[CHOOSE i \in set : \A j \in set : i <= j]

C8_PickSupportStatement ==
    picked # Pending =>
        IF support.k = "undefined" THEN picked = Null
        ELSE IF support.k = "object" THEN picked = support
        ELSE LET items == support.items
                 plain == {i \in DOMAIN items : Unconditional(items[i])}
                 known == {i \in DOMAIN items : items[i].version_added # VNull}
             IN  IF plain # {} THEN picked = FirstAmong(items, plain)
                 ELSE IF known # {} THEN picked = FirstAmong(items, known)
                 ELSE IF items # <<>> THEN picked = items[1]
                 ELSE picked = Null

\* C8 witness: a list whose first statement is prefixed and supported and whose
\* second is unconditional: the second was picked
C8_Witness ==
    /\ picked # Pending
    /\ support.k = "array"
    /\ Len(support.items) = 2
    /\ support.items[1].prefix # Undefined
    /\ support.items[1].version_added = VTrue
    /\ Unconditional(support.items[2])
    /\ picked = support.items[2]
    /\ picked # support.items[1]

\* C7: for a function-call value of a known property
FunctionValueResolved ==
    /\ compat # Pending
    /\ feature.type = "property-value"
    /\ feature.valueKind = "function"
    /\ feature.property \in DOMAIN properties

IsObjectAt(key) ==
    /\ key \in DOMAIN properties[feature.property].sub
    /\ properties[feature.property].sub[key].k = "object"

PlainKey == toMdnKey(feature.value)
FunctionKey == toMdnKey(feature.value) \o <<"(", ")">>

\* C7 (as amended): the plain normalized form is tried first and the form with
\* '()' second, so with both entries present the plain entry is resolved
C7_PlainFormFirst ==
    FunctionValueResolved =>
        compat = IF IsObjectAt(PlainKey) THEN properties[feature.property].sub[PlainKey]
                 ELSE IF IsObjectAt(FunctionKey)
                 THEN properties[feature.property].sub[FunctionKey]
                 ELSE Null

\* C7 witness: both entries are there and the plain one was resolved
C7_Witness ==
    /\ FunctionValueResolved
    /\ IsObjectAt(PlainKey)
    /\ IsObjectAt(FunctionKey)
    /\ compat = EntryPlain
    /\ feature.value # PlainKey

\* C7 as stated: the form with '()' is tried first
C7_FunctionFormFirst ==
    FunctionValueResolved =>
        compat = IF IsObjectAt(FunctionKey)
                 THEN properties[feature.property].sub[FunctionKey]
                 ELSE IF IsObjectAt(PlainKey) THEN properties[feature.property].sub[PlainKey]
                 ELSE Null

\* C5: no releases give null; with a current release, the current release of the
\* highest version, the most recent date deciding among equal versions; without
\* one, the release of the most recent date, the highest version deciding among
\* equal dates
NumberOf(r) == normalizeVersion(VStr(r.version))
Newer(r, e) == ~GreaterOrEqual(NumberOf(e), NumberOf(r))
SameVersion(r, e) ==
    GreaterOrEqual(NumberOf(e), NumberOf(r)) /\ GreaterOrEqual(NumberOf(r), NumberOf(e))
Current == {e \in Range(releases.entries) : e.status = "current"}

C5_LatestRelease ==
    latest # Pending =>
        IF releases.k = "undefined" THEN latest = VNull
        ELSE IF releases.entries = <<>> THEN latest = VNull
        ELSE IF Current # {}
        THEN \E r \in Current :
                /\ latest = VStr(r.version)
                /\ \A e \in Current :
                       Newer(r, e) \/ (SameVersion(r, e) /\ r.date >= e.date)
        ELSE \E r \in Range(releases.entries) :
                /\ latest = VStr(r.version)
                /\ \A e \in Range(releases.entries) :
                       r.date > e.date
                           \/ (r.date = e.date /\ GreaterOrEqual(NumberOf(r), NumberOf(e)))

\* C5 witness: two releases of one date, neither current, the lower version
\* listed last: the higher version is returned
C5_Witness ==
    /\ latest = VStr(<<"2">>)
    /\ releases.k = "object"
    /\ Len(releases.entries) = 2
    /\ Current = {}
    /\ releases.entries[1].date = releases.entries[2].date
    /\ releases.entries[1].version = <<"2">>
    /\ releases.entries[2].version = <<"1", ".", "5">>

\* C10: after every runAnalysis call the status element has the class 'error'
\* exactly when that call caught an error, and each version element has the class
\* 'unavailable' exactly when its text is the dash, 'n/a' or 'not fully supported'
NoVersionTexts == {<<"EM DASH">>, <<"n/a">>, <<"not fully supported">>}

C10_ClassesFollowTheLatestRun ==
    /\ dom.statusError <=> outcomes[Len(outcomes)] = "threw"
    /\ \A b \in Browsers : dom.version[b].unavailable <=> dom.version[b].text \in NoVersionTexts

\* C10 witness: a call that threw was followed by one that returned versions for
\* some browser and none for another
C10_Witness ==
    /\ outcomes = <<"threw", "ok">>
    /\ ~dom.statusError
    /\ \E b \in Browsers : ~dom.version[b].unavailable
    /\ \E b \in Browsers : dom.version[b].text = <<"not fully supported">>

====
